---- MODULE Spec2Model ----
(***************************************************************************)
(* The "Transit" kernel of transit_op.cc: graph-time shape inference,      *)
(* TransitOp::Compute (validation, output allocation, narrowing of the     *)
(* element counts) and TransitFunctor<CPUDevice, T>::operator() (the       *)
(* per-element loop).                                                      *)
(*                                                                         *)
(* A 64-bit element count is the record [hi, lo] standing for              *)
(* hi * 2^31 + lo with 0 <= lo < 2^31, so that counts beyond the 32-bit    *)
(* range are exact.  The buffer of a tensor of at most MaxLen elements     *)
(* (MaxGrid for the grid) is modelled in full; of a larger tensor only the *)
(* element count is modelled: each of its elements has an unconstrained    *)
(* value and a store to it is not kept.  The loop is followed iteration by *)
(* iteration for MaxIter iterations; the iterations after those, which     *)
(* only touch elements that are not modelled, are taken in one step.       *)
(***************************************************************************)
EXTENDS Integers, Sequences, FiniteSets, TLC

VARIABLES
    shape,        \* runtime shapes of the tensors: [grid, z, r, delta]
    static,       \* shapes known when the graph is built: [grid, z, r]
    inferred,     \* output shape set by the shape function
    mem,          \* the buffers behind the data pointers: [grid, z, r, delta]
    mem0,         \* the buffers as they were when the call was entered
    pc,           \* "graph", "graph_error", "start", "functor", "done"
    status,       \* status of the OpKernelContext: "OK", "InvalidArgument",
                  \* "ResourceExhausted" (the error of a failed allocation)
    invoked,      \* TransitFunctor has been called
    f_grid_size,  \* int grid_size received by the functor
    f_size,       \* int size received by the functor
    i,            \* loop counter of the CPU functor
    wlog          \* indices below MaxIter that delta was stored to, in order

vars == <<shape, static, inferred, mem, mem0, pc, status, invoked,
          f_grid_size, f_size, i, wlog>>

\* ------------------------------------------------------------- bounds
MaxLen == 2
MaxGrid == 1
MaxVal == 1
MaxHi == 2
MaxLo == 1
MaxIter == 3

\* ------------------------------------------------------------- integers
kint32max == 2147483647

I64(h, l) == [hi |-> h, lo |-> l]

Leq64(a, b) == a.hi < b.hi \/ (a.hi = b.hi /\ a.lo <= b.lo)

\* static_cast<int>: the value modulo 2^32, taken into the signed range.
StaticCastInt(x) == IF x.hi % 2 = 0 THEN x.lo ELSE (x.lo - kint32max) - 1

\* a + b, the carry out of lo taken without leaving the 31 bits of lo.
Add64(a, b) ==
    IF a.lo > kint32max - b.lo
    THEN I64(a.hi + b.hi + 1, (a.lo - (kint32max - b.lo)) - 1)
    ELSE I64(a.hi + b.hi, a.lo + b.lo)

\* a / 2, rounded down.
Half64(a) ==
    I64(a.hi \div 2,
        (a.lo \div 2) + (IF a.hi % 2 = 1 THEN (kint32max \div 2) + 1 ELSE 0))

\* a * b by doubling, exact for every product below 2^62.
RECURSIVE Mul64(_, _)
Mul64(a, b) ==
    IF b = I64(0, 0) THEN I64(0, 0)
    ELSE LET h == Mul64(a, Half64(b))
             d == Add64(h, h)
         IN  IF b.lo % 2 = 1 THEN Add64(d, a) ELSE d

RECURSIVE NumElements(_)
NumElements(s) ==
    IF s = <<>> THEN I64(0, 1) ELSE Mul64(s[1], NumElements(Tail(s)))

\* ------------------------------------------------------------- values
Vals == 0..MaxVal

Uninit == <<"uninit">>

\* transit::compute_delta<T>: a fixed function of its four arguments, kept as a term.
compute_delta(grid_size, grid, z, r) == <<"compute_delta", grid_size, grid, z, r>>

\* Number of elements of a tensor's buffer that are modelled.
Window(s, cap) ==
    LET n == NumElements(s) IN IF n.hi = 0 /\ n.lo <= cap THEN n.lo ELSE 0

\* p[idx] read through a data pointer.
Read(buf, idx) == IF idx + 1 \in DOMAIN buf THEN {buf[idx + 1]} ELSE Vals

\* p[idx] = v through a data pointer.
Store(buf, idx, v) ==
    IF idx + 1 \in DOMAIN buf THEN [buf EXCEPT ![idx + 1] = v] ELSE buf

\* ------------------------------------------------------------- shape function
UnknownShape == <<I64(-1, -1)>>

NullShape == <<I64(-1, 0)>>

WithRank(s, rank) == s = UnknownShape \/ Len(s) = rank

Merge(a, b) ==
    IF a = UnknownShape THEN [ok |-> TRUE, shape |-> b]
    ELSE IF b = UnknownShape \/ a = b THEN [ok |-> TRUE, shape |-> a]
    ELSE [ok |-> FALSE, shape |-> UnknownShape]

ShapeFn(in) ==
    IF ~WithRank(in.grid, 1) THEN [ok |-> FALSE, shape |-> UnknownShape]
    ELSE IF ~Merge(in.z, in.r).ok THEN [ok |-> FALSE, shape |-> UnknownShape]
    ELSE [ok |-> TRUE, shape |-> in.z]

\* ------------------------------------------------------------- inputs
Counts(cap) ==
    {I64(0, n) : n \in 0..cap} \cup {I64(0, kint32max)}
        \cup {I64(h, l) : h \in 1..MaxHi, l \in 0..MaxLo}

\* Matrices of 1, 2 and 2^32 elements.
Matrices ==
    {<<I64(0, 1), I64(0, 1)>>, <<I64(0, 1), I64(0, 2)>>, <<I64(0, 2), I64(0, 1)>>,
     <<I64(1, 0), I64(0, 2)>>}

\* Scalars, vectors of every count, and the matrices.
Shapes(cap) == {<<>>} \cup {<<c>> : c \in Counts(cap)} \cup Matrices

\* The grid: a scalar, a vector of any count, or the matrix of one element.
GridShapes ==
    {<<>>} \cup {<<c>> : c \in Counts(MaxGrid)} \cup {<<I64(0, 1), I64(0, 1)>>}

Buffers(s, cap) == [1..Window(s, cap) -> Vals]

Init ==
    /\ \E gs \in GridShapes, zs \in Shapes(MaxLen), rs \in Shapes(MaxLen) :
         /\ shape = [grid |-> gs, z |-> zs, r |-> rs, delta |-> NullShape]
         /\ \E known \in BOOLEAN :
              static = IF known THEN [grid |-> gs, z |-> zs, r |-> rs]
                       ELSE [grid |-> UnknownShape, z |-> UnknownShape,
                             r |-> UnknownShape]
         /\ \E g \in Buffers(gs, MaxGrid), z \in Buffers(zs, MaxLen),
               r \in Buffers(rs, MaxLen) :
              mem = [grid |-> g, z |-> z, r |-> r, delta |-> <<>>]
    /\ mem0 = mem
    /\ inferred = NullShape
    /\ pc = "graph"
    /\ status = "OK"
    /\ invoked = FALSE
    /\ f_grid_size = 0
    /\ f_size = 0
    /\ i = 0
    /\ wlog = <<>>

\* ------------------------------------------------------------- graph construction
ShapeFnOK ==
    /\ pc = "graph"
    /\ ShapeFn(static).ok
    /\ inferred' = ShapeFn(static).shape
    /\ pc' = "start"
    /\ UNCHANGED <<shape, static, mem, mem0, status, invoked, f_grid_size,
                   f_size, i, wlog>>

ShapeFnError ==
    /\ pc = "graph"
    /\ ~ShapeFn(static).ok
    /\ status' = "InvalidArgument"
    /\ pc' = "graph_error"
    /\ UNCHANGED <<shape, static, inferred, mem, mem0, invoked, f_grid_size,
                   f_size, i, wlog>>

\* ------------------------------------------------------------- TransitOp::Compute
\* Mutant: the ranks are compared, not the element counts.
LengthOK_rank(sh) == Len(sh.r) = Len(sh.z)

LengthOK(sh) == NumElements(sh.r) = NumElements(sh.z)

\* Mutant: the ceiling itself is refused.
SizeOK_strict(size) == Leq64(size, I64(0, kint32max - 1))

SizeOK(size) == Leq64(size, I64(0, kint32max))

\* Mutant: the output takes the shape of r.
OutputShape_r(sh) == sh.r

OutputShape(sh) == sh.z

Allocate(s) == [k \in 1..Window(s, MaxLen) |-> Uninit]

ComputeRejectLength ==
    /\ pc = "start"
    /\ ~LengthOK(shape)
    /\ status' = "InvalidArgument"
    /\ pc' = "done"
    /\ UNCHANGED <<shape, static, inferred, mem, mem0, invoked, f_grid_size,
                   f_size, i, wlog>>

\* allocate_output returns an error: OP_REQUIRES_OK records it and returns.
ComputeAllocFail ==
    /\ pc = "start"
    /\ LengthOK(shape)
    /\ status' = "ResourceExhausted"
    /\ pc' = "done"
    /\ UNCHANGED <<shape, static, inferred, mem, mem0, invoked, f_grid_size,
                   f_size, i, wlog>>

ComputeRejectSize ==
    /\ pc = "start"
    /\ LengthOK(shape)
    /\ shape' = [shape EXCEPT !.delta = OutputShape(shape)]
    /\ mem' = [mem EXCEPT !.delta = Allocate(OutputShape(shape))]
    /\ ~SizeOK(NumElements(shape.z))
    /\ status' = "InvalidArgument"
    /\ pc' = "done"
    /\ UNCHANGED <<static, inferred, mem0, invoked, f_grid_size, f_size, i, wlog>>

ComputeInvoke ==
    /\ pc = "start"
    /\ LengthOK(shape)
    /\ shape' = [shape EXCEPT !.delta = OutputShape(shape)]
    /\ mem' = [mem EXCEPT !.delta = Allocate(OutputShape(shape))]
    /\ SizeOK(NumElements(shape.z))
    /\ f_grid_size' = StaticCastInt(NumElements(shape.grid))
    /\ f_size' = StaticCastInt(NumElements(shape.z))
    /\ i' = 0
    /\ invoked' = TRUE
    /\ pc' = "functor"
    /\ UNCHANGED <<static, inferred, mem0, status, wlog>>

\* ------------------------------------------------------------- TransitFunctor<CPUDevice, T>
\* Mutant: the loop runs one iteration too many.
LoopCond_le(idx, size) == idx <= size

LoopCond(idx, size) == idx < size

\* Mutant: z and r are passed in each other's place.
LoopBody_swapped(m, grid_size, idx, zi, ri) ==
    [m EXCEPT !.delta = Store(m.delta, idx, compute_delta(grid_size, m.grid, ri, zi))]

\* Mutant: a sample after the first reuses the result of the sample before it
\* when that one is already there.
LoopBody_carry(m, grid_size, idx, zi, ri) ==
    [m EXCEPT !.delta =
        Store(m.delta, idx,
              IF idx > 0 /\ idx \in DOMAIN m.delta /\ m.delta[idx] # Uninit
              THEN m.delta[idx]
              ELSE compute_delta(grid_size, m.grid, zi, ri))]

\* Mutant: every sample is evaluated at z[0].
LoopBody_first(m, grid_size, idx, zi, ri) ==
    [m EXCEPT !.delta =
        Store(m.delta, idx,
              compute_delta(grid_size, m.grid, CHOOSE v \in Read(m.z, 0) : TRUE, ri))]

\* Mutant: the sample read is cleared in z.
LoopBody_clobber(m, grid_size, idx, zi, ri) ==
    [m EXCEPT !.delta = Store(m.delta, idx, compute_delta(grid_size, m.grid, zi, ri)),
              !.z = Store(m.z, idx, 0)]

LoopBody(m, grid_size, idx, zi, ri) ==
    [m EXCEPT !.delta = Store(m.delta, idx, compute_delta(grid_size, m.grid, zi, ri))]

FunctorStep ==
    /\ pc = "functor"
    /\ LoopCond(i, f_size)
    /\ i < MaxIter
    /\ \E zi \in Read(mem.z, i), ri \in Read(mem.r, i) :
         mem' = LoopBody(mem, f_grid_size, i, zi, ri)
    /\ wlog' = Append(wlog, i)
    /\ i' = i + 1
    /\ UNCHANGED <<shape, static, inferred, mem0, pc, status, invoked,
                   f_grid_size, f_size>>

\* The iterations from MaxIter on, when all of them store outside the modelled
\* part of delta: they leave the modelled buffers as they are and end with i = size.
FunctorRest ==
    /\ pc = "functor"
    /\ LoopCond(i, f_size)
    /\ i >= MaxIter
    /\ i >= Len(mem.delta)
    /\ i' = f_size
    /\ UNCHANGED <<shape, static, inferred, mem, mem0, pc, status, invoked,
                   f_grid_size, f_size, wlog>>

FunctorReturn ==
    /\ pc = "functor"
    /\ ~LoopCond(i, f_size)
    /\ pc' = "done"
    /\ UNCHANGED <<shape, static, inferred, mem, mem0, status, invoked,
                   f_grid_size, f_size, i, wlog>>

\* operator() as a function of the buffers: the loop run from idx to its end.
RECURSIVE TransitFunctor(_, _, _, _)
TransitFunctor(m, grid_size, size, idx) ==
    IF LoopCond(idx, size)
    THEN TransitFunctor(
             LoopBody(m, grid_size, idx,
                      CHOOSE v \in Read(m.z, idx) : TRUE,
                      CHOOSE v \in Read(m.r, idx) : TRUE),
             grid_size, size, idx + 1)
    ELSE m

\* ------------------------------------------------------------- data-parallel strategy
\* One lane per index below size, run in any order; each lane runs the loop body once.
\* The lanes from MaxIter on touch no modelled element and are not followed.
Range(s) == {s[k] : k \in DOMAIN s}

ParStep ==
    /\ pc = "functor"
    /\ \E idx \in 0..(MaxIter - 1) :
         /\ LoopCond(idx, f_size)
         /\ idx \notin Range(wlog)
         /\ \E zi \in Read(mem.z, idx), ri \in Read(mem.r, idx) :
              mem' = LoopBody(mem, f_grid_size, idx, zi, ri)
         /\ wlog' = Append(wlog, idx)
    /\ UNCHANGED <<shape, static, inferred, mem0, pc, status, invoked,
                   f_grid_size, f_size, i>>

ParReturn ==
    /\ pc = "functor"
    /\ \A idx \in 0..(MaxIter - 1) : LoopCond(idx, f_size) => idx \in Range(wlog)
    /\ pc' = "done"
    /\ UNCHANGED <<shape, static, inferred, mem, mem0, status, invoked,
                   f_grid_size, f_size, i, wlog>>

\* ------------------------------------------------------------- specifications
Next ==
    \/ ShapeFnOK
    \/ ShapeFnError
    \/ ComputeRejectLength
    \/ ComputeAllocFail
    \/ ComputeRejectSize
    \/ ComputeInvoke
    \/ FunctorStep
    \/ FunctorRest
    \/ FunctorReturn

Spec == Init /\ [][Next]_vars

NextPar ==
    \/ ShapeFnOK
    \/ ShapeFnError
    \/ ComputeRejectLength
    \/ ComputeAllocFail
    \/ ComputeRejectSize
    \/ ComputeInvoke
    \/ ParStep
    \/ ParReturn

SpecPar == Init /\ [][NextPar]_vars

\* ------------------------------------------------------------- properties
\* Compute has been entered.
Called == pc \in {"functor", "done"}

\* The buffers the functor is handed: the inputs as at entry, delta freshly allocated.
Entry == [mem0 EXCEPT !.delta = Allocate(shape.delta)]

Perms(n) == {p \in [1..n -> 1..n] : \A a, b \in 1..n : a # b => p[a] # p[b]}

Permute(buf, p) == [k \in DOMAIN buf |-> buf[p[k]]]

\* C1: when the CPU functor has returned from a batch of at most MaxIter samples,
\* every delta[k] with 0 <= k < size is compute_delta(grid_size, grid, z[k], r[k])
\* of the inputs it was called with.
C1_DeltaIsComputeDelta ==
    (pc = "done" /\ invoked /\ f_size <= MaxIter) =>
        \A k \in 0..(f_size - 1) :
            /\ k + 1 \in DOMAIN mem.delta
            /\ mem.delta[k + 1] =
                   compute_delta(f_grid_size, mem0.grid, mem0.z[k + 1], mem0.r[k + 1])

C1_Witness ==
    /\ pc = "done" /\ invoked /\ f_size = 2 /\ f_grid_size = 1
    /\ mem0.z[1] # mem0.z[2] /\ mem0.z[2] # mem0.r[2]
    /\ mem.delta[2] = compute_delta(1, mem0.grid, mem0.z[2], mem0.r[2])

\* C2: a call of Compute whose r and z differ in element count ends with
\* InvalidArgument and never invokes the functor.
C2_LengthMismatchRejected ==
    (Called /\ NumElements(shape.r) # NumElements(shape.z)) =>
        (pc = "done" /\ status = "InvalidArgument" /\ ~invoked)

C2_Witness ==
    /\ pc = "done" /\ status = "InvalidArgument" /\ ~invoked
    /\ NumElements(shape.z) = I64(0, 2) /\ NumElements(shape.r) = I64(0, 1)

\* C3: a call of Compute whose grid has no element is rejected (it ends with an
\* error status), so the functor is never invoked with grid_size = 0.
C3_EmptyGridRejected ==
    (Called /\ NumElements(shape.grid) = I64(0, 0)) =>
        (pc = "done" /\ status # "OK" /\ ~invoked)

\* C4 as amended: with r and z of one element count, a count above 2^31 - 1 ends
\* the call with an error, the functor not invoked and nothing stored to delta; the
\* error is InvalidArgument when the output was allocated and the allocation's error
\* when it was not.  A count of at most 2^31 - 1 (2^31 - 1 included) is never ended
\* with InvalidArgument: the functor is invoked, unless the allocation failed.
C4_SizeCeiling ==
    (Called /\ NumElements(shape.r) = NumElements(shape.z)) =>
        IF NumElements(shape.z).hi > 0
        THEN /\ pc = "done" /\ ~invoked
             /\ wlog = <<>>
             /\ \A k \in DOMAIN mem.delta : mem.delta[k] = Uninit
             /\ \/ status = "InvalidArgument" /\ shape.delta = shape.z
                \/ status = "ResourceExhausted" /\ shape.delta = NullShape
        ELSE \/ invoked /\ status = "OK"
             \/ /\ ~invoked /\ pc = "done"
                /\ status = "ResourceExhausted" /\ shape.delta = NullShape

\* C4 as claimed: with r and z of one element count, a count above 2^31 - 1 ends the
\* call with InvalidArgument, the functor not invoked and nothing stored to delta; a
\* count of at most 2^31 - 1 is not ended by the size check.
C4_AlwaysInvalidArgument ==
    (Called /\ NumElements(shape.r) = NumElements(shape.z)) =>
        IF NumElements(shape.z).hi > 0
        THEN /\ pc = "done" /\ status = "InvalidArgument" /\ ~invoked
             /\ wlog = <<>>
             /\ \A k \in DOMAIN mem.delta : mem.delta[k] = Uninit
        ELSE status # "InvalidArgument"

C4_Witness ==
    /\ pc = "done" /\ status = "InvalidArgument" /\ wlog = <<>>
    /\ shape.delta = shape.z
    /\ NumElements(shape.z) = I64(1, 0) /\ NumElements(shape.r) = I64(1, 0)

\* C5: once the functor is invoked, delta has the shape of z and z, r and delta all
\* have size elements, size being the functor's argument; a shape inferred when the
\* graph was built is that shape.
C5_ShapePreserved ==
    invoked =>
        /\ shape.delta = shape.z
        /\ NumElements(shape.r) = NumElements(shape.z)
        /\ NumElements(shape.delta) = NumElements(shape.z)
        /\ NumElements(shape.z) = I64(0, f_size)
        /\ Len(mem.delta) = Len(mem.z) /\ Len(mem.r) = Len(mem.z)
        /\ (inferred # UnknownShape => inferred = shape.delta)

C5_Witness ==
    /\ invoked /\ pc = "done"
    /\ shape.z = <<>> /\ shape.r = <<I64(0, 1)>> /\ shape.delta = <<>>

\* C6: when every lane of the data-parallel strategy has run, in whatever order, on
\* a batch of at most MaxIter samples, delta is what the sequential loop of the CPU
\* functor yields on the same inputs.
C6_ParallelEqualsSequential ==
    (pc = "done" /\ invoked /\ f_size <= MaxIter) =>
        mem.delta = TransitFunctor(Entry, f_grid_size, f_size, 0).delta

C6_Witness ==
    /\ pc = "done" /\ invoked /\ Len(wlog) >= 2 /\ wlog[1] > wlog[2]
    /\ mem0.z[1] # mem0.z[2]

\* C7: a batch of at most MaxIter samples evaluated on the samples permuted by p
\* yields the output of the unpermuted batch permuted by p, for every permutation p
\* of the indices.
C7_PermutationEquivariance ==
    (pc = "done" /\ invoked /\ f_size <= MaxIter) =>
        \A p \in Perms(f_size) :
            TransitFunctor([Entry EXCEPT !.z = Permute(mem0.z, p),
                                         !.r = Permute(mem0.r, p)],
                           f_grid_size, f_size, 0).delta
                = Permute(mem.delta, p)

C7_Witness ==
    /\ pc = "done" /\ invoked /\ f_size >= 2
    /\ mem0.r[1] # mem0.r[2] /\ mem0.z[1] # mem0.z[2]
    /\ mem.delta[1] # mem.delta[2]

\* C8: at every step, grid, z and r hold the values they had at entry.
C8_InputsUnchanged ==
    /\ mem.grid = mem0.grid
    /\ mem.z = mem0.z
    /\ mem.r = mem0.r

C8_Witness ==
    /\ pc = "functor" /\ i >= 1 /\ i < f_size
    /\ 1 \in DOMAIN mem.delta /\ mem.delta[1] # Uninit /\ mem0.z[1] # 0

\* C9: the loop has stored to exactly the indices 0..i-1, once each and in order
\* (of which the log keeps those below MaxIter), with i <= size; it can always take
\* its next step; and it has returned only with i = size, after size stores.
C9_LoopWritesEachIndexOnce ==
    invoked =>
        /\ i >= 0 /\ i <= f_size
        /\ wlog = [k \in 1..(IF i < MaxIter THEN i ELSE MaxIter) |-> k - 1]
        /\ (pc = "functor" => ENABLED (FunctorStep \/ FunctorRest \/ FunctorReturn))
        /\ (pc = "done" =>
               /\ i = f_size
               /\ Len(wlog) = (IF f_size < MaxIter THEN f_size ELSE MaxIter)
               /\ \A k \in DOMAIN mem.delta : mem.delta[k] # Uninit)

C9_Witness ==
    /\ pc = "done" /\ invoked /\ f_size = 2 /\ wlog = <<0, 1>>
    /\ \A k \in 1..2 : mem.delta[k] # Uninit

\* C10: the int arguments grid_size and size of the functor equal the 64-bit
\* element counts of the grid tensor and of the z tensor.
C10_NarrowingExact ==
    invoked =>
        /\ I64(0, f_grid_size) = NumElements(shape.grid)
        /\ I64(0, f_size) = NumElements(shape.z)

====
